---- MODULE Spec2Model ----
(***************************************************************************)
(* State-machine model of the evaluation pipeline and its streaming        *)
(* driver:                                                                 *)
(*   pipeline.py    ProcessingPipeline.process_item (four stages)          *)
(*   llm_client.py  evaluate_answer_with_llm (judge-model evaluator)       *)
(*   server.py      websocket_endpoint (streaming session), load_config,   *)
(*                  save_config, update_config, upload_csv                 *)
(*   scoring.py     edit distance, cer, wer, keyword matcher               *)
(*   text_utils.py  normalize_text                                         *)
(*   stt_test.py, e2e_test.py   the batch programs (main, evaluate_row)    *)
(* Specifications: Spec (a streaming session), LocalSpec (the same without *)
(* a storage bucket), FnSpec (one call of a pure function), BatchSpec (one *)
(* run of a batch program), ConfigSpec (a streaming session next to        *)
(* configuration updates and uploads).                                     *)
(* External collaborators (synthesizer, storage, recognizer, chatbot,      *)
(* judge model, the consumer's transport, the clock) are the environment:  *)
(* their outcomes are chosen nondeterministically.                         *)
(***************************************************************************)
EXTENDS Integers, Sequences, FiniteSets, TLC

VARIABLES
    \* --- server.py: streaming session (websocket_endpoint locals) ---
    wsPc,               \* position of the handler coroutine
    connected,          \* the consumer's transport is still open
    items,              \* data.get("items", [])
    idx,                \* 1-based position of the for-loop over items
    total,
    processed,
    total_score,
    total_latency,
    sent,               \* messages delivered to the consumer, in order
    handler_raised,     \* the handler terminated by an escaping exception
    language_code,      \* the language chosen for the item about to start
    \* --- server.py: process-wide state ---
    current_stt_provider,
    current_phrase_hints,
    current_results,
    config_file,        \* config.json, the persisted configuration record
    uploaded,           \* what the latest successful upload returned to the client
    \* --- pipeline.py: the process_item call in flight ---
    pc,                 \* stage position of process_item
    args,               \* the arguments of the call
    result,             \* the PipelineResult under construction
    start_total,
    t0,
    \* --- environment ---
    now,                \* time.perf_counter()
    cache,              \* wav files existing under the output directory
    gcs_bucket,         \* os.getenv("GCS_BUCKET_NAME")
    faults,             \* collaborator failures induced so far
    \* --- observation of the call in flight (history variables) ---
    calls,              \* collaborators invoked by this process_item call
    raised,             \* the exception that left a stage, or None
    failed_stage,       \* the stage it left (1..4), 0 when none
    measured,           \* latency measured at the end of each completed stage
    eval_res,           \* what evaluate_answer_with_llm gave its caller
    judge_outcome,      \* what the judge-model delegate did
    \* --- scoring.py, text_utils.py: one call of a pure function ---
    fn_in,              \* the arguments
    fn_out,             \* the function applied and the value it returned
    \* --- stt_test.py, e2e_test.py: one batch run (main) ---
    script,             \* which of the two programs runs
    opts,               \* the parsed command line
    df,                 \* the rows of the test set
    row_i,              \* 1-based position of `for _, row in df.iterrows()`
    rows,               \* the collected result table
    results_csv,        \* the result file
    error_csv,          \* the error-case file
    batch_pc,           \* position of main
    row_exc             \* per row: what evaluate_row raised (history variable)

wsVars   == <<wsPc, connected, items, idx, total, processed, total_score,
              total_latency, sent, handler_raised, language_code>>
cfgVars  == <<current_stt_provider, current_phrase_hints, current_results>>
reqVars  == <<config_file, uploaded>>
pipeVars == <<pc, args, result, start_total, t0>>
envVars  == <<now, cache, gcs_bucket, faults>>
obsVars  == <<calls, raised, failed_stage, measured, eval_res, judge_outcome>>
streamVars == <<wsVars, cfgVars, pipeVars, envVars, obsVars, reqVars>>
fnVars   == <<fn_in, fn_out>>
batchVars == <<script, opts, df, row_i, rows, results_csv, error_csv, batch_pc,
               row_exc>>
vars     == <<streamVars, fnVars, batchVars>>

(***************************************************************************)
(* Bounds                                                                  *)
(***************************************************************************)
MaxItems  == 2      \* longest item list the consumer sends
MaxFaults == 1      \* collaborator failures induced in one session
MaxClock  == 1      \* clock ticks observed in one session
MaxChars  == 3      \* longest string handed to cer
MaxText   == 4      \* longest string handed to normalize_text
MaxTokens == 3      \* most words in a string handed to wer
MaxKeywords == 2    \* most entries of a keyword specification
MaxRows   == 2      \* most rows of a batch test set

(***************************************************************************)
(* Python values                                                           *)
(***************************************************************************)
None == "None"

\* bool(s) of an optional string
Truthy(s) == s # None /\ s # ""

\* dict.get(key, default)
Get(d, k, default) == IF k \in DOMAIN d THEN d[k] ELSE default

\* str(e): KeyError renders the repr of its key, the others their message
Str(e) == IF e.type = "KeyError" THEN "'" \o e.msg \o "'" ELSE e.msg

Exc(t, m) == [type |-> t, msg |-> m]

\* a handler that catches RuntimeError and its subclasses only
IsException_RuntimeErrorOnly(e) ==
    e.type \in {"RuntimeError", "ConfigError", "ChatbaseError"}

\* `except Exception` (pipeline.py:135, server.py:270)
IsException(e) ==
    e.type \in {"RuntimeError", "ConfigError", "ChatbaseError", "KeyError",
                "ValueError", "JSONDecodeError", "APIConnectionError",
                "FileNotFoundError", "GoogleCloudError"}

\* substring test: `sub in s`
Contains(s, sub) ==
    \E i \in 1..(Len(s) - Len(sub) + 1) : SubSeq(s, i, i + Len(sub) - 1) = sub

\* s.startswith(prefix)
StartsWith(s, prefix) ==
    Len(s) >= Len(prefix) /\ SubSeq(s, 1, Len(prefix)) = prefix

(***************************************************************************)
(* text_utils.py                                                           *)
(***************************************************************************)
UpperChars == "ABCDEFGHIJKLMNOPQRSTUVWXYZ"
LowerChars == "abcdefghijklmnopqrstuvwxyz"

IsSpace(c) == c \in {" ", "\t", "\n"}

\* the lower-case letter of every capital
LowerOf ==
    [c \in {SubSeq(UpperChars, i, i) : i \in 1..Len(UpperChars)} |->
        LET i == CHOOSE j \in 1..Len(UpperChars) : SubSeq(UpperChars, j, j) = c
        IN  SubSeq(LowerChars, i, i)]

LowerChar(c) == IF c \in DOMAIN LowerOf THEN LowerOf[c] ELSE c

RECURSIVE Lower(_)
Lower(s) == IF s = "" THEN "" ELSE LowerChar(SubSeq(s, 1, 1)) \o Lower(SubSeq(s, 2, Len(s)))

RECURSIVE LStrip(_)
LStrip(s) ==
    IF s # "" /\ IsSpace(SubSeq(s, 1, 1)) THEN LStrip(SubSeq(s, 2, Len(s))) ELSE s

RECURSIVE RStrip(_)
RStrip(s) ==
    IF s # "" /\ IsSpace(SubSeq(s, Len(s), Len(s)))
    THEN RStrip(SubSeq(s, 1, Len(s) - 1)) ELSE s

\* a trim of the left end only
Strip_LeftOnly(s) == LStrip(s)

\* s.strip()
Strip(s) == RStrip(LStrip(s))

\* _WHITESPACE_RE.sub(" ", s): every maximal run of whitespace becomes one space
RECURSIVE CollapseWhitespace(_)
CollapseWhitespace(s) ==
    IF s = "" THEN ""
    ELSE IF IsSpace(SubSeq(s, 1, 1))
         THEN " " \o CollapseWhitespace(LStrip(s))
         ELSE SubSeq(s, 1, 1) \o CollapseWhitespace(SubSeq(s, 2, Len(s)))

normalize_text(text) ==
    IF text = None \/ text = "" THEN ""
    ELSE CollapseWhitespace(Lower(Strip(text)))

(***************************************************************************)
(* scoring.py                                                              *)
(***************************************************************************)
\* list(s): the characters of a string
Chars(s) == [i \in 1..Len(s) |-> SubSeq(s, i, i)]

\* s.split(): the maximal runs of non-whitespace characters
RECURSIVE SplitWords(_)
SplitWords(s) ==
    LET t == LStrip(s) IN
    IF t = "" THEN <<>>
    ELSE LET n == IF \E i \in 1..Len(t) : IsSpace(SubSeq(t, i, i))
                  THEN (CHOOSE i \in 1..Len(t) :
                           /\ IsSpace(SubSeq(t, i, i))
                           /\ \A j \in 1..(i - 1) : ~IsSpace(SubSeq(t, j, j))) - 1
                  ELSE Len(t)
         IN  <<SubSeq(t, 1, n)>> \o SplitWords(SubSeq(t, n + 1, Len(t)))

\* s.split(","): the parts between commas, empty ones included
RECURSIVE SplitCommas(_)
SplitCommas(s) ==
    IF \E i \in 1..Len(s) : SubSeq(s, i, i) = ","
    THEN LET n == CHOOSE i \in 1..Len(s) :
                     /\ SubSeq(s, i, i) = ","
                     /\ \A j \in 1..(i - 1) : SubSeq(s, j, j) # ","
         IN  <<SubSeq(s, 1, n - 1)>> \o SplitCommas(SubSeq(s, n + 1, Len(s)))
    ELSE <<s>>

Min3(a, b, c) ==
    IF a <= b /\ a <= c THEN a ELSE IF b <= c THEN b ELSE c

\* a substitution that costs as much as a deletion plus an insertion
SubstitutionCost_Two(ref_token, hyp_token) == IF ref_token # hyp_token THEN 2 ELSE 0

\* (ref_token != hyp_token) as an integer
SubstitutionCost(ref_token, hyp_token) == IF ref_token # hyp_token THEN 1 ELSE 0

\* the inner loop: current_row grown from position j on (rows are 1-based
\* here, so Python's row[k] is row[k + 1])
RECURSIVE CurrentRow(_, _, _, _, _)
CurrentRow(current_row, previous_row, ref_token, hyp, j) ==
    IF Len(current_row) > Len(hyp) THEN current_row
    ELSE LET insertions    == current_row[j] + 1
             deletions     == previous_row[j + 1] + 1
             substitutions == previous_row[j] + SubstitutionCost(ref_token, hyp[j])
         IN  CurrentRow(Append(current_row, Min3(insertions, deletions, substitutions)),
                        previous_row, ref_token, hyp, j + 1)

\* the outer loop: the row after the tokens i.. of ref
RECURSIVE LastRow(_, _, _, _)
LastRow(previous_row, ref, hyp, i) ==
    IF i > Len(ref) THEN previous_row
    ELSE LastRow(CurrentRow(<<i>>, previous_row, ref[i], hyp, 1), ref, hyp, i + 1)

_levenshtein_distance(ref, hyp) ==
    LET row == LastRow([k \in 1..(Len(hyp) + 1) |-> k - 1], ref, hyp, 1)
    IN  row[Len(row)]

\* a float result, kept exact as the fraction num/den
Rate(num, den) == [num |-> num, den |-> den]

\* a policy that calls an empty reference against any hypothesis a match
EmptyReference_AlwaysZero(hyp_seq) == Rate(0, 1)

\* `return 0.0 if not hyp_seq else 1.0`
EmptyReference(hyp_seq) == IF hyp_seq = <<>> THEN Rate(0, 1) ELSE Rate(1, 1)

\* a rate clamped to [0, 1]
ErrorRate_Clamped(ref_seq, hyp_seq) ==
    IF ref_seq = <<>> THEN EmptyReference(hyp_seq)
    ELSE LET distance == _levenshtein_distance(ref_seq, hyp_seq) IN
         IF distance > Len(ref_seq) THEN Rate(1, 1) ELSE Rate(distance, Len(ref_seq))

\* the body shared by cer and wer once the tokens are there
ErrorRate(ref_seq, hyp_seq) ==
    IF ref_seq = <<>> THEN EmptyReference(hyp_seq)
    ELSE Rate(_levenshtein_distance(ref_seq, hyp_seq), Len(ref_seq))

cer(ref, hyp) == ErrorRate(Chars(ref), Chars(hyp))

wer(ref, hyp) == ErrorRate(SplitWords(ref), SplitWords(hyp))

\* a matcher that takes an empty keyword list for a match
NoKeywords_Vacuous == <<TRUE, <<>>>>

\* `if not items: return False, []`
NoKeywords == <<FALSE, <<>>>>

\* the keyword specification is [str |-> s] or [list |-> <<...>>]
KeywordItems(keywords) ==
    LET kept == IF "str" \in DOMAIN keywords
                THEN SelectSeq(SplitCommas(keywords.str), LAMBDA item : Strip(item) # "")
                ELSE SelectSeq(keywords.list,
                               LAMBDA item : Truthy(item) /\ Strip(item) # "")
    IN  [i \in 1..Len(kept) |-> Strip(kept[i])]

check_answer_with_keywords(answer, keywords) ==
    LET its == KeywordItems(keywords) IN
    IF its = <<>> THEN NoKeywords
    ELSE LET normalized_answer == Lower(answer)
             missing == SelectSeq(its, LAMBDA keyword :
                                          ~Contains(normalized_answer, Lower(keyword)))
         IN  <<missing = <<>>, missing>>

(***************************************************************************)
(* Inputs and collaborator outcomes                                        *)
(***************************************************************************)
ItemWithRef ==
    [id |-> 1, question |-> "Where do lions live?",
     reference_answer |-> "Lions live in Africa"]
ItemNoRef ==
    [id |-> 2, question |-> "What do pandas eat?", reference_answer |-> ""]
\* an entry of the consumer's list without the "id" key
ItemNoId ==
    [question |-> "What do pandas eat?", reference_answer |-> ""]

ItemPool == {ItemWithRef, ItemNoRef, ItemNoId}

ItemLists == UNION {[1..n -> ItemPool] : n \in 0..MaxItems}

\* the initial message of a consumer: it carries an item list, or no "items"
\* key at all
InitialMessages ==
    {[items |-> its] : its \in ItemLists} \cup {[action |-> "start"]}

\* scores the judge model hands out when it answers: the rubric asks for
\* 0..100, the reply is free JSON
JudgeScores == {80, 150}

\* the phrase list of constants.py; one entry stands for the list
TAIWAN_ANIMALS == <<"animal">>

RawTranscript == "Where do  LIONS live "
AnswerText == "Lions live in Africa."

TtsError == Exc("RuntimeError", "Azure TTS returned empty audio data")
SttError(path) ==
    Exc("RuntimeError", "No transcription results returned for " \o path \o ".")
ChatError ==
    Exc("ChatbaseError", "Chatbase response did not include an answer text field")
NoExc == Exc("None", "")

\* what the judge-model delegate can do
JudgeAnswers ==
    {[kind |-> "object",
      obj |-> [is_correct |-> (s >= 60), score |-> s,
               reason |-> "Consistent with the standard answer"]] : s \in JudgeScores}
JudgeFailures ==
    { [kind |-> "no_api_key"],      \* _require_env("OPENAI_API_KEY") raises
      [kind |-> "api_error"],       \* client.chat.completions.create raises
      [kind |-> "empty"],           \* the response has no content
      [kind |-> "not_json"],        \* json.loads raises
      [kind |-> "object", obj |-> [is_correct |-> TRUE]] }   \* fields missing
JudgeOutcomes == JudgeAnswers \cup JudgeFailures

(***************************************************************************)
(* llm_client.py                                                           *)
(***************************************************************************)
\* the exception raised inside the try block of evaluate_answer_with_llm
DelegateException(o) ==
    CASE o.kind = "api_error" -> Exc("APIConnectionError", "Connection error.")
      [] o.kind = "empty"     -> Exc("ValueError", "Empty response from OpenAI")
      [] o.kind = "not_json"  ->
             Exc("JSONDecodeError", "Expecting value: line 1 column 1 (char 0)")
      [] OTHER -> NoExc

\* the dictionary of the except branch (llm_client.py:91-94)
FailClosed(exc) ==
    [is_correct |-> FALSE, reason |-> "Evaluation failed: " \o Str(exc)]

\* the dictionary of the normal return (llm_client.py:83-87)
Judgment(obj) ==
    [is_correct |-> Get(obj, "is_correct", FALSE),
     score      |-> Get(obj, "score", 0),
     reason     |-> Get(obj, "reason", "No reason provided")]

evaluate_answer_with_llm(o) ==
    IF o.kind = "no_api_key"
    THEN [state |-> "raised",
          exc |-> Exc("ConfigError",
                      "Environment variable 'OPENAI_API_KEY' is required but was not provided.")]
    ELSE IF DelegateException(o) # NoExc
    THEN [state |-> "returned", value |-> FailClosed(DelegateException(o))]
    ELSE [state |-> "returned", value |-> Judgment(o.obj)]

(***************************************************************************)
(* pipeline.py                                                             *)
(***************************************************************************)
PipelineResult(item_id, question, reference_answer) ==
    [id |-> item_id, question |-> question, reference_answer |-> reference_answer,
     audio_path |-> None, tts_latency |-> 0,
     stt_text |-> "", stt_latency |-> 0,
     ai_answer |-> "", chatbase_latency |-> 0,
     score |-> 0, reason |-> "", eval_latency |-> 0,
     total_latency |-> 0, status |-> "pending", error_msg |-> None]

\* hashlib.md5(question.encode("utf-8")).hexdigest()[:8]
q_hash(question) ==
    CASE question = "Where do lions live?" -> "88522efa"
      [] question = "What do pandas eat?"  -> "5febafc8"

wav_filename(item_id, question) ==
    "q" \o ToString(item_id) \o "_" \o q_hash(question) \o ".wav"

OutputDir == "audio"

wav_path(item_id, question) == OutputDir \o "/" \o wav_filename(item_id, question)

\* blob.public_url of gcs_client.upload_file
PublicUrl(bucket, blob_name) ==
    "https://storage.googleapis.com/" \o bucket \o "/" \o blob_name

Voice(language) ==
    IF StartsWith(Lower(language), "en") THEN "en-US-AvaNeural" ELSE None

QueryText(stt_text, stt_provider) ==
    IF stt_provider = "openai"
    THEN stt_text \o ";Please answer in the language: en-US"
    ELSE stt_text \o " Please answer in the language: zh-TW"

\* an except branch that starts from a fresh result
OnException_FreshResult(res, e) ==
    [PipelineResult(res.id, res.question, res.reference_answer)
        EXCEPT !.status = "error", !.error_msg = Str(e)]

\* an except branch that also writes the error into the reason field
OnException_WritesReason(res, e) ==
    [res EXCEPT !.status = "error", !.error_msg = Str(e), !.reason = Str(e)]

\* the except branch of process_item
OnException(res, e) == [res EXCEPT !.status = "error", !.error_msg = Str(e)]

\* result.total_latency = time.perf_counter() - start_total
Finish(res, clock) == [res EXCEPT !.total_latency = clock - start_total]

\* a skip branch that records nothing
SkipScoring_NoReason(res) == res

\* stage 4 when the reference answer is empty
SkipScoring(res) == [res EXCEPT !.reason = "No reference answer provided"]

\* stage 4 when the judge model has answered
RecordJudgment(res, value) ==
    [res EXCEPT !.score = value.score, !.reason = value.reason]

\* the end of the try block: eval latency and status
Succeed(res, clock) == [res EXCEPT !.eval_latency = clock - t0, !.status = "success"]

\* the blocking call of a stage takes d ticks of the clock
Elapse(d) == now' = now + d

Durations == 0..(MaxClock - now)

\* a stage that swallows the exception and runs again
StageFails_Retries(stage, e) ==
    /\ raised' = NoExc
    /\ failed_stage' = 0
    /\ UNCHANGED <<result, pc>>

\* an exception leaves stage `stage` of the call in flight
StageFails(stage, e) ==
    /\ raised' = e
    /\ failed_stage' = stage
    /\ IF IsException(e)
       THEN /\ result' = Finish(OnException(result, e), now')
            /\ pc' = "returned"
       ELSE /\ pc' = "raised"
            /\ UNCHANGED result

\* a cache probe that never finds the artifact
Exists_Never(path) == FALSE

\* wav_path.exists()
Exists(path) == path \in cache

\* 1. TTS generation (pipeline.py:59-80)
Synthesize ==
    /\ pc = "tts"
    /\ LET file == wav_path(args.item_id, args.question) IN
       IF Exists(file)
       THEN /\ result' = [result EXCEPT !.tts_latency = now - t0]
            /\ measured' = [measured EXCEPT ![1] = now - t0]
            /\ pc' = "upload"
            /\ UNCHANGED <<now, cache, faults, calls, raised, failed_stage>>
       ELSE \E d \in Durations :
            /\ Elapse(d)
            /\ calls' = Append(calls,
                               [who |-> "synthesizer", text |-> args.question,
                                language |-> args.language_code,
                                voice |-> Voice(args.language_code)])
            /\ \/ /\ cache' = cache \cup {file}
                  /\ result' = [result EXCEPT !.tts_latency = now' - t0]
                  /\ measured' = [measured EXCEPT ![1] = now' - t0]
                  /\ pc' = "upload"
                  /\ UNCHANGED <<faults, raised, failed_stage>>
               \/ /\ faults < MaxFaults
                  /\ faults' = faults + 1
                  /\ StageFails(1, TtsError)
                  /\ UNCHANGED <<cache, measured>>
    /\ UNCHANGED <<wsVars, cfgVars, args, start_total, t0, gcs_bucket,
                   eval_res, judge_outcome>>
    /\ UNCHANGED <<fnVars, batchVars, reqVars>>

\* an upload fallback that leaves the audio path unset
UploadFallback_LeavesUnset(res, local) == res

\* the except branch of the upload: fall back to the local path
UploadFallback(res, local) == [res EXCEPT !.audio_path = local]

\* upload to GCS if configured (pipeline.py:82-97), up to the t0 of stage 2
Upload ==
    /\ pc = "upload"
    /\ LET name == wav_filename(args.item_id, args.question)
           local == wav_path(args.item_id, args.question)
           call(ok) == [who |-> "storage", blob |-> "audio/" \o name, ok |-> ok]
       IN  IF Truthy(gcs_bucket)
           THEN \E d \in Durations :
                /\ Elapse(d)
                /\ \/ /\ calls' = Append(calls, call(TRUE))
                      /\ result' = [result EXCEPT
                                      !.audio_path = PublicUrl(gcs_bucket, "audio/" \o name)]
                      /\ UNCHANGED faults
                   \/ /\ faults < MaxFaults
                      /\ faults' = faults + 1
                      /\ calls' = Append(calls, call(FALSE))
                      /\ result' = UploadFallback(result, local)
           ELSE /\ result' = [result EXCEPT !.audio_path = local]
                /\ UNCHANGED <<now, calls, faults>>
    /\ t0' = now'
    /\ pc' = "stt"
    /\ UNCHANGED <<wsVars, cfgVars, args, start_total, cache, gcs_bucket,
                   raised, failed_stage, measured, eval_res, judge_outcome>>
    /\ UNCHANGED <<fnVars, batchVars, reqVars>>

\* 2. STT (pipeline.py:99-106)
Recognize ==
    /\ pc = "stt"
    /\ \E d \in Durations : Elapse(d)
    /\ calls' = Append(calls,
                       [who |-> "recognizer", language |-> args.language_code,
                        hints |-> args.phrase_hints,
                        provider |-> args.stt_provider])
    /\ \/ /\ result' = [result EXCEPT !.stt_text = normalize_text(RawTranscript),
                                      !.stt_latency = now' - t0]
          /\ measured' = [measured EXCEPT ![2] = now' - t0]
          /\ t0' = now'
          /\ pc' = "chat"
          /\ UNCHANGED <<faults, raised, failed_stage>>
       \/ /\ faults < MaxFaults
          /\ faults' = faults + 1
          /\ StageFails(2, SttError(wav_path(args.item_id, args.question)))
          /\ UNCHANGED <<measured, t0>>
    /\ UNCHANGED <<wsVars, cfgVars, args, start_total, cache, gcs_bucket,
                   eval_res, judge_outcome>>
    /\ UNCHANGED <<fnVars, batchVars, reqVars>>

\* 3. Chatbase (pipeline.py:108-121)
Query ==
    /\ pc = "chat"
    /\ \E d \in Durations : Elapse(d)
    /\ calls' = Append(calls,
                       [who |-> "chatbot",
                        text |-> QueryText(result.stt_text, args.stt_provider)])
    /\ \/ /\ result' = [result EXCEPT !.ai_answer = AnswerText,
                                      !.chatbase_latency = now' - t0]
          /\ measured' = [measured EXCEPT ![3] = now' - t0]
          /\ t0' = now'
          /\ pc' = "eval"
          /\ UNCHANGED <<faults, raised, failed_stage>>
       \/ /\ faults < MaxFaults
          /\ faults' = faults + 1
          /\ StageFails(3, ChatError)
          /\ UNCHANGED <<measured, t0>>
    /\ UNCHANGED <<wsVars, cfgVars, args, start_total, cache, gcs_bucket,
                   eval_res, judge_outcome>>
    /\ UNCHANGED <<fnVars, batchVars, reqVars>>

\* 4. Eval (pipeline.py:123-133)
Evaluate ==
    /\ pc = "eval"
    /\ IF Truthy(args.reference_answer)
       THEN \E o \in JudgeOutcomes, d \in Durations :
              /\ Elapse(d)
              /\ (o \in JudgeFailures) => faults < MaxFaults
              /\ faults' = IF o \in JudgeFailures THEN faults + 1 ELSE faults
              /\ judge_outcome' = o
              /\ calls' = IF o.kind = "no_api_key" THEN calls
                          ELSE Append(calls, [who |-> "judge", answer |-> result.ai_answer])
              /\ LET ev == evaluate_answer_with_llm(o) IN
                 /\ eval_res' = ev
                 /\ IF ev.state = "raised"
                    THEN StageFails(4, ev.exc) /\ UNCHANGED measured
                    ELSE IF "score" \notin DOMAIN ev.value
                    THEN StageFails(4, Exc("KeyError", "score")) /\ UNCHANGED measured
                    ELSE /\ result' = Finish(Succeed(RecordJudgment(result, ev.value), now'), now')
                         /\ measured' = [measured EXCEPT ![4] = now' - t0]
                         /\ pc' = "returned"
                         /\ UNCHANGED <<raised, failed_stage>>
       ELSE /\ result' = Finish(Succeed(SkipScoring(result), now), now)
            /\ measured' = [measured EXCEPT ![4] = now - t0]
            /\ pc' = "returned"
            /\ UNCHANGED <<now, faults, calls, raised, failed_stage, eval_res,
                           judge_outcome>>
    /\ UNCHANGED <<wsVars, cfgVars, args, start_total, t0, cache, gcs_bucket>>
    /\ UNCHANGED <<fnVars, batchVars, reqVars>>

(***************************************************************************)
(* server.py                                                               *)
(***************************************************************************)
\* load_config() when no configuration record exists (server.py:60-63)
DefaultConfig == [phrase_hints |-> TAIWAN_ANIMALS, stt_provider |-> "google"]

\* CONFIG_FILE does not exist
NoFile == [state |-> "absent"]

\* no upload has succeeded: the client holds no item list of the server's
NoUpload == [state |-> "none"]

\* Path(p).name
RECURSIVE BaseName(_)
BaseName(p) ==
    IF \E i \in 1..Len(p) : SubSeq(p, i, i) = "/"
    THEN BaseName(SubSeq(p, (CHOOSE i \in 1..Len(p) : SubSeq(p, i, i) = "/") + 1, Len(p)))
    ELSE p

\* server.py:229-234
AudioUrl(audio_path) ==
    IF ~Truthy(audio_path) THEN None
    ELSE IF StartsWith(audio_path, "http") THEN audio_path
    ELSE "/audio/" \o BaseName(audio_path)

\* Python's `a / n if n else 0`, kept exact as the fraction num/den
Average(sum, n) == IF n # 0 THEN [num |-> sum, den |-> n] ELSE [num |-> 0, den |-> 1]

\* language_code = "en-US" if current_stt_provider == "openai" else "zh-TW"
LanguageFor(provider) == IF provider = "openai" THEN "en-US" ELSE "zh-TW"

\* server.py:222-224
AddScore(sum, res) == IF res.status = "success" THEN sum + res.score ELSE sum
AddLatency(sum, res) == IF res.status = "success" THEN sum + res.total_latency ELSE sum

\* an update whose statistics count the items before this one
UpdateMessage_CountsBefore(res, n_processed, n_total, score_sum, latency_sum) ==
    [type |-> "update",
     result |-> [id |-> res.id, audio_url |-> AudioUrl(res.audio_path),
                 question |-> res.question, stt_text |-> res.stt_text,
                 ai_answer |-> res.ai_answer, score |-> res.score,
                 latency |-> res.total_latency,
                 breakdown |-> [tts |-> res.tts_latency, stt |-> res.stt_latency,
                                chatbase |-> res.chatbase_latency,
                                eval |-> res.eval_latency],
                 status |-> res.status, error |-> res.error_msg],
     stats |-> [processed |-> n_processed - 1, total |-> n_total,
                avg_score |-> Average(score_sum, n_processed - 1),
                avg_latency |-> Average(latency_sum, n_processed - 1)]]

\* server.py:236-261
UpdateMessage(res, n_processed, n_total, score_sum, latency_sum) ==
    [type |-> "update",
     result |-> [id |-> res.id, audio_url |-> AudioUrl(res.audio_path),
                 question |-> res.question, stt_text |-> res.stt_text,
                 ai_answer |-> res.ai_answer, score |-> res.score,
                 latency |-> res.total_latency,
                 breakdown |-> [tts |-> res.tts_latency, stt |-> res.stt_latency,
                                chatbase |-> res.chatbase_latency,
                                eval |-> res.eval_latency],
                 status |-> res.status, error |-> res.error_msg],
     stats |-> [processed |-> n_processed, total |-> n_total,
                avg_score |-> Average(score_sum, n_processed),
                avg_latency |-> Average(latency_sum, n_processed)]]

\* a loop that steps over every other item
NextIndex_SkipsOne(i) == i + 2

\* `for item in items`: the next position
NextIndex(i) == i + 1

\* a loop that breaks at the first failed item
AfterUpdate_BreaksOnError(res) == IF res.status = "error" THEN "done" ELSE "sleep"

\* after the update message: asyncio.sleep, whatever the item's status
AfterUpdate(res) == "sleep"

CompleteMessage == [type |-> "complete"]
ErrorMessage(text) == [type |-> "error", message |-> text]

\* an except branch that reports the fault and lets the loop go on
HandlerFault_KeepsRunning(e) ==
    /\ wsPc' = "sleep"
    /\ IF connected
       THEN sent' = Append(sent, ErrorMessage(Str(e))) /\ UNCHANGED handler_raised
       ELSE handler_raised' = TRUE /\ UNCHANGED sent

\* `except Exception as e` of the handler: one send, which itself raises when
\* the transport is gone
HandlerFault(e) ==
    /\ wsPc' = "done"
    /\ IF connected
       THEN sent' = Append(sent, ErrorMessage(Str(e))) /\ UNCHANGED handler_raised
       ELSE handler_raised' = TRUE /\ UNCHANGED sent

\* await websocket.send_json(msg) inside the try block, then continue at `next`
SendOr(msg, next) ==
    IF connected
    THEN sent' = Append(sent, msg) /\ wsPc' = next
    ELSE wsPc' = "done" /\ UNCHANGED sent      \* WebSocketDisconnect: logged

\* a test that lets every list through
NoItems_Never(its) == FALSE

\* `if not items`
NoItems(its) == its = <<>>

\* data = await websocket.receive_json() ... total_latency = 0
\* (server.py:193-203), for a consumer whose message is one of `messages`
ReceiveFrom(messages) ==
    /\ wsPc = "receive"
    /\ IF ~connected
       THEN /\ wsPc' = "done"
            /\ UNCHANGED <<items, idx, total, processed, total_score,
                           total_latency, sent>>
       ELSE \E data \in messages :
              LET its == Get(data, "items", <<>>) IN
              /\ items' = its
              /\ IF NoItems(its)
                 THEN /\ sent' = Append(sent, ErrorMessage("No items to process"))
                      /\ wsPc' = "done"
                      /\ UNCHANGED <<idx, total, processed, total_score, total_latency>>
                 ELSE /\ total' = Len(its)
                      /\ processed' = 0
                      /\ total_score' = 0
                      /\ total_latency' = 0
                      /\ idx' = 1
                      /\ wsPc' = "loop"
                      /\ UNCHANGED sent
    /\ UNCHANGED <<connected, handler_raised, cfgVars, pipeVars, envVars, obsVars>>
    /\ UNCHANGED <<fnVars, batchVars, reqVars, language_code>>

\* a consumer that sends a list of its own
Receive == ReceiveFrom(InitialMessages)

\* a call that leaves hints and provider to the defaults of process_item
Arguments_Defaults(item, language) ==
    [item_id |-> item.id, question |-> item.question,
     reference_answer |-> item.reference_answer,
     phrase_hints |-> <<>>,
     stt_provider |-> "google",
     language_code |-> language]

\* the arguments of pipeline.process_item (server.py:211-218)
Arguments(item, language) ==
    [item_id |-> item.id, question |-> item.question,
     reference_answer |-> item.reference_answer,
     phrase_hints |-> current_phrase_hints,
     stt_provider |-> current_stt_provider,
     language_code |-> language]

\* the call of process_item with the language chosen for the item, up to
\* the start of its first stage (server.py:211-218, pipeline.py:55-65)
CallProcessItem(language) ==
    /\ LET item == items[idx] IN
       IF "id" \notin DOMAIN item
       THEN /\ HandlerFault(Exc("KeyError", "id"))
            /\ UNCHANGED <<pipeVars, obsVars>>
       ELSE /\ args' = Arguments(item, language)
            /\ result' = PipelineResult(item.id, item.question, item.reference_answer)
            /\ start_total' = now
            /\ t0' = now
            /\ pc' = "tts"
            /\ wsPc' = "processing"
            /\ calls' = <<>>
            /\ raised' = NoExc
            /\ failed_stage' = 0
            /\ measured' = [k \in 1..4 |-> 0]
            /\ eval_res' = [state |-> "none"]
            /\ judge_outcome' = [kind |-> "none"]
            /\ UNCHANGED <<sent, handler_raised>>
    /\ UNCHANGED <<connected, items, idx, total, processed, total_score,
                   total_latency, cfgVars, envVars>>
    /\ UNCHANGED <<fnVars, batchVars, reqVars>>

\* one more iteration of `for item in items`, with nothing else running in
\* the process: the language is chosen and process_item is called
\* (server.py:205-218)
StartItem ==
    /\ wsPc = "loop"
    /\ idx <= Len(items)
    /\ language_code' = LanguageFor(current_stt_provider)
    /\ CallProcessItem(language_code')

\* process_item has returned: statistics, current_results, the update message
\* (server.py:220-261)
Report ==
    /\ wsPc = "processing"
    /\ pc \in {"returned", "raised"}
    /\ pc' = "idle"
    /\ IF pc = "raised"
       THEN /\ HandlerFault(raised)
            /\ UNCHANGED <<processed, total_score, total_latency, current_results>>
       ELSE /\ processed' = processed + 1
            /\ total_score' = AddScore(total_score, result)
            /\ total_latency' = AddLatency(total_latency, result)
            /\ current_results' = Append(current_results, result)
            /\ SendOr(UpdateMessage(result, processed', total, total_score', total_latency'),
                      AfterUpdate(result))
            /\ UNCHANGED handler_raised
    /\ calls' = <<>>
    /\ raised' = NoExc
    /\ failed_stage' = 0
    /\ measured' = [k \in 1..4 |-> 0]
    /\ eval_res' = [state |-> "none"]
    /\ judge_outcome' = [kind |-> "none"]
    /\ UNCHANGED <<connected, items, idx, total, current_stt_provider,
                   current_phrase_hints, args, result, start_total, t0, envVars>>
    /\ UNCHANGED <<fnVars, batchVars, reqVars, language_code>>

\* await asyncio.sleep(0.01), then the next iteration
Sleep ==
    /\ wsPc = "sleep"
    /\ idx' = NextIndex(idx)
    /\ wsPc' = "loop"
    /\ UNCHANGED <<connected, items, total, processed, total_score, total_latency,
                   sent, handler_raised, cfgVars, pipeVars, envVars, obsVars>>
    /\ UNCHANGED <<fnVars, batchVars, reqVars, language_code>>

\* await websocket.send_json({"type": "complete"})
Complete ==
    /\ wsPc = "loop"
    /\ idx > Len(items)
    /\ SendOr(CompleteMessage, "done")
    /\ UNCHANGED <<connected, items, idx, total, processed, total_score,
                   total_latency, handler_raised, cfgVars, pipeVars, envVars, obsVars>>
    /\ UNCHANGED <<fnVars, batchVars, reqVars, language_code>>

\* the consumer goes away
Disconnect ==
    /\ connected
    /\ wsPc # "done"
    /\ connected' = FALSE
    /\ UNCHANGED <<wsPc, items, idx, total, processed, total_score, total_latency,
                   sent, handler_raised, cfgVars, pipeVars, envVars, obsVars>>
    /\ UNCHANGED <<fnVars, batchVars, reqVars, language_code>>

(***************************************************************************)
(* server.py: the configuration record, update_config, upload_csv, and the *)
(* streaming handler running next to them                                  *)
(***************************************************************************)
\* load_config(): the content of the file; the defaults when the file does
\* not exist or cannot be read
load_config(file) == IF file.state = "json" THEN file.data ELSE DefaultConfig

\* the module state after import, with `file` on disk (server.py:73-76)
Loaded(file) ==
    /\ config_file = file
    /\ current_phrase_hints = Get(load_config(file), "phrase_hints", TAIWAN_ANIMALS)
    /\ current_stt_provider = Get(load_config(file), "stt_provider", "google")
    /\ current_results = <<>>

\* save_config(config_data): the file afterwards, written or, when the write
\* raised (logged, not re-raised), as it was
save_config(file, config_data) == {[state |-> "json", data |-> config_data], file}

\* the bodies of POST /config
ConfigUpdates ==
    [phrase_hints : {TAIWAN_ANIMALS, <<"panda">>}, stt_provider : {"google", "openai"}]

\* POST /config: a coroutine of the event loop, so it runs only while the
\* streaming handler waits (receive_json, send_json, sleep) or has ended
update_config ==
    /\ wsPc \in {"receive", "sleep", "done"}
    /\ \E config \in ConfigUpdates :
         /\ current_phrase_hints' = config.phrase_hints
         /\ current_stt_provider' = config.stt_provider
         /\ config_file' \in save_config(config_file,
                                         [phrase_hints |-> current_phrase_hints',
                                          stt_provider |-> current_stt_provider'])
    /\ UNCHANGED <<wsVars, current_results, uploaded, pipeVars, envVars, obsVars>>
    /\ UNCHANGED <<fnVars, batchVars>>

\* the files a client uploads: the rows after column resolution, or a file
\* pandas cannot parse
CsvFiles ==
    { [readable |-> TRUE, rows |-> <<ItemWithRef>>],
      [readable |-> TRUE, rows |-> <<ItemNoRef, ItemWithRef>>],
      [readable |-> FALSE] }

\* the stt_provider form field: sent, left to its default, or sent empty
ProviderFields == {"google", "openai", ""}

\* `if stt_provider: current_stt_provider = stt_provider`
ProviderAfterUpload(stt_provider) ==
    IF Truthy(stt_provider) THEN stt_provider ELSE current_stt_provider

\* the response of the upload: the item list (server.py:165-184), or status
\* 400 from the except branch, which gives the client nothing to run
UploadResponse(file) ==
    IF file.readable
    THEN [state |-> "uploaded", items |-> file.rows]
    ELSE uploaded

\* POST /upload: a plain function, run by a worker thread, so it runs at any
\* moment of the streaming handler
upload_csv ==
    /\ \E file \in CsvFiles, stt_provider \in ProviderFields :
         /\ current_results' = <<>>
         /\ current_stt_provider' = ProviderAfterUpload(stt_provider)
         /\ uploaded' = UploadResponse(file)
    /\ UNCHANGED <<wsVars, current_phrase_hints, config_file, pipeVars, envVars,
                   obsVars>>
    /\ UNCHANGED <<fnVars, batchVars>>

\* the client starts the run of its latest upload
ReceiveUploaded ==
    /\ uploaded # NoUpload
    /\ ReceiveFrom({[items |-> uploaded.items]})

\* language_code = "en-US" if current_stt_provider == "openai" else "zh-TW"
\* (server.py:205-208): the first read of the provider
ReadLanguage ==
    /\ wsPc = "loop"
    /\ idx <= Len(items)
    /\ language_code' = LanguageFor(current_stt_provider)
    /\ wsPc' = "call"
    /\ UNCHANGED <<connected, items, idx, total, processed, total_score,
                   total_latency, sent, handler_raised>>
    /\ UNCHANGED <<cfgVars, pipeVars, envVars, obsVars, reqVars, fnVars, batchVars>>

\* pipeline.process_item(...) (server.py:211-218): the second read of the
\* provider, and the read of the phrase hints
PassArguments ==
    /\ wsPc = "call"
    /\ CallProcessItem(language_code)
    /\ UNCHANGED language_code

(***************************************************************************)
(* Specification                                                           *)
(***************************************************************************)
\* no pure function is under test
FnIdle ==
    /\ fn_in = [kind |-> "none"]
    /\ fn_out = [fn |-> "none"]

\* no batch program runs
BatchIdle ==
    /\ script = "none"
    /\ opts = [intent_strict |-> FALSE, use_llm_eval |-> FALSE, autosave |-> FALSE,
               keywords |-> FALSE]
    /\ df = <<>>
    /\ row_i = 0
    /\ rows = <<>>
    /\ results_csv = [written |-> FALSE]
    /\ error_csv = [written |-> FALSE]
    /\ batch_pc = "idle"
    /\ row_exc = <<>>

\* the process has started without a configuration record (load_config gives
\* its defaults), the audio directory is empty, and one consumer has connected
Init ==
    /\ wsPc = "receive"
    /\ connected = TRUE
    /\ items = <<>>
    /\ idx = 0
    /\ total = 0
    /\ processed = 0
    /\ total_score = 0
    /\ total_latency = 0
    /\ sent = <<>>
    /\ handler_raised = FALSE
    /\ language_code = None
    /\ current_stt_provider = DefaultConfig.stt_provider
    /\ current_phrase_hints = DefaultConfig.phrase_hints
    /\ current_results = <<>>
    /\ config_file = NoFile
    /\ uploaded = NoUpload
    /\ pc = "idle"
    /\ args = [item_id |-> 0, question |-> "", reference_answer |-> "",
               phrase_hints |-> <<>>, stt_provider |-> "", language_code |-> ""]
    /\ result = PipelineResult(0, "", "")
    /\ start_total = 0
    /\ t0 = 0
    /\ now = 0
    /\ cache = {}
    /\ gcs_bucket \in {None, "zoo-audio"}
    /\ faults = 0
    /\ calls = <<>>
    /\ raised = NoExc
    /\ failed_stage = 0
    /\ measured = [k \in 1..4 |-> 0]
    /\ eval_res = [state |-> "none"]
    /\ judge_outcome = [kind |-> "none"]
    /\ FnIdle
    /\ BatchIdle

Next ==
    \/ Receive
    \/ StartItem
    \/ Synthesize
    \/ Upload
    \/ Recognize
    \/ Query
    \/ Evaluate
    \/ Report
    \/ Sleep
    \/ Complete
    \/ Disconnect

Spec == Init /\ [][Next]_vars

\* a streaming session of a deployment without a storage bucket
LocalInit == Init /\ gcs_bucket = None

LocalSpec == LocalInit /\ [][Next]_vars

(***************************************************************************)
(* The pure functions of scoring.py and text_utils.py, each applied once   *)
(* to arguments drawn from bounded sets                                    *)
(***************************************************************************)
\* no streaming session exists
StreamIdle ==
    /\ wsPc = "done"
    /\ connected = FALSE
    /\ items = <<>>
    /\ idx = 0
    /\ total = 0
    /\ processed = 0
    /\ total_score = 0
    /\ total_latency = 0
    /\ sent = <<>>
    /\ handler_raised = FALSE
    /\ language_code = None
    /\ current_stt_provider = DefaultConfig.stt_provider
    /\ current_phrase_hints = DefaultConfig.phrase_hints
    /\ current_results = <<>>
    /\ config_file = NoFile
    /\ uploaded = NoUpload
    /\ pc = "idle"
    /\ args = [item_id |-> 0, question |-> "", reference_answer |-> "",
               phrase_hints |-> <<>>, stt_provider |-> "", language_code |-> ""]
    /\ result = PipelineResult(0, "", "")
    /\ start_total = 0
    /\ t0 = 0
    /\ now = 0
    /\ cache = {}
    /\ gcs_bucket = None
    /\ faults = 0
    /\ calls = <<>>
    /\ raised = NoExc
    /\ failed_stage = 0
    /\ measured = [k \in 1..4 |-> 0]
    /\ eval_res = [state |-> "none"]
    /\ judge_outcome = [kind |-> "none"]

\* the strings of at most n characters over an alphabet
RECURSIVE StringsUpTo(_, _)
StringsUpTo(alphabet, n) ==
    IF n = 0 THEN {""}
    ELSE LET shorter == StringsUpTo(alphabet, n - 1)
         IN  shorter \cup {t \o c : t \in shorter, c \in alphabet}

RECURSIVE Join(_, _)
Join(parts, sep) ==
    IF parts = <<>> THEN ""
    ELSE IF Len(parts) = 1 THEN parts[1]
    ELSE parts[1] \o sep \o Join(Tail(parts), sep)

SeqsUpTo(S, n) == UNION {[1..k -> S] : k \in 0..n}

\* reference/hypothesis strings for the character rate
CharTexts == StringsUpTo({"a", "b", " "}, MaxChars)

CharPairs == {[kind |-> "chars", ref |-> r, hyp |-> h] : r, h \in CharTexts}

\* strings for the word rate, each with the words it is made of: written
\* plainly, and with irregular whitespace around and between the words
WordTexts ==
    {[text |-> Join(w, " "), words |-> w] : w \in SeqsUpTo({"a", "b"}, MaxTokens)}
    \cup
    {[text |-> "  " \o Join(w, "\t ") \o "\n", words |-> w] :
        w \in SeqsUpTo({"a", "bb"}, MaxTokens)}

WordPairs ==
    {[kind |-> "words", ref |-> r.text, hyp |-> h.text,
      ref_words |-> r.words, hyp_words |-> h.words] : r, h \in WordTexts}

\* entries of a keyword specification: as written, trimmed, and case-folded
KeywordParts ==
    { [raw |-> "lion",        trimmed |-> "lion",      folded |-> "lion"],
      [raw |-> " Carnivore ", trimmed |-> "Carnivore", folded |-> "carnivore"],
      [raw |-> "zebra",       trimmed |-> "zebra",     folded |-> "zebra"],
      [raw |-> "",            trimmed |-> "",          folded |-> ""],
      [raw |-> "  ",          trimmed |-> "",          folded |-> ""] }

\* a missing entry of an explicit list
NoneEntry == [raw |-> None, trimmed |-> "", folded |-> ""]

\* candidate answers: as written and case-folded
Answers ==
    { [raw |-> "The LION is a carnivore", folded |-> "the lion is a carnivore"],
      [raw |-> "The lion is here",        folded |-> "the lion is here"],
      [raw |-> "",                        folded |-> ""] }

RawOf(parts) == [i \in 1..Len(parts) |-> parts[i].raw]

KeywordInputs ==
    {[kind |-> "keywords", answer |-> a, parts |-> ps,
      keywords |-> [str |-> Join(RawOf(ps), ",")]] :
        a \in Answers, ps \in SeqsUpTo(KeywordParts, MaxKeywords)}
    \cup
    {[kind |-> "keywords", answer |-> a, parts |-> ps,
      keywords |-> [list |-> RawOf(ps)]] :
        a \in Answers, ps \in SeqsUpTo(KeywordParts \cup {NoneEntry}, MaxKeywords)}

\* texts for the normalizer: null, and strings with capitals and whitespace
NormTexts == {None} \cup StringsUpTo({"A", "b", " ", "\n"}, MaxText)

TextInputs == {[kind |-> "text", text |-> t] : t \in NormTexts}

FnInputs == CharPairs \cup WordPairs \cup KeywordInputs \cup TextInputs

Apply(kind, fn, value) ==
    /\ fn_in.kind = kind
    /\ fn_out.fn = "none"
    /\ fn_out' = [fn |-> fn, value |-> value]
    /\ UNCHANGED <<fn_in, streamVars, batchVars>>

ApplyCer == Apply("chars", "cer", cer(fn_in.ref, fn_in.hyp))

ApplyWer == Apply("words", "wer", wer(fn_in.ref, fn_in.hyp))

ApplyCharDistance ==
    Apply("chars", "_levenshtein_distance",
          _levenshtein_distance(Chars(fn_in.ref), Chars(fn_in.hyp)))

ApplyWordDistance ==
    Apply("words", "_levenshtein_distance",
          _levenshtein_distance(SplitWords(fn_in.ref), SplitWords(fn_in.hyp)))

ApplyKeywords ==
    Apply("keywords", "check_answer_with_keywords",
          check_answer_with_keywords(fn_in.answer.raw, fn_in.keywords))

ApplyNormalize == Apply("text", "normalize_text", normalize_text(fn_in.text))

FnInit ==
    /\ StreamIdle
    /\ BatchIdle
    /\ fn_in \in FnInputs
    /\ fn_out = [fn |-> "none"]

FnNext ==
    \/ ApplyCer
    \/ ApplyWer
    \/ ApplyCharDistance
    \/ ApplyWordDistance
    \/ ApplyKeywords
    \/ ApplyNormalize

FnSpec == FnInit /\ [][FnNext]_vars

(***************************************************************************)
(* stt_test.py and e2e_test.py: the batch programs                         *)
(***************************************************************************)
\* Python's True / False / None in a column that holds an optional bool
PyBool(b) == IF b THEN "True" ELSE "False"

\* the rows of the test set CSV (columns id, wav_path, ref_transcript)
TestRows ==
    { [id |-> 1, wav_path |-> "audio/q1.wav", ref_transcript |-> "Big cat"],
      [id |-> 2, wav_path |-> "audio/q2.wav", ref_transcript |-> "Red panda"],
      [id |-> 3, wav_path |-> "audio/q3.wav", ref_transcript |-> "Big cat"] }

TestSets == SeqsUpTo(TestRows, MaxRows)

\* load_dataset_questions and load_keywords over the dataset of the run:
\* id 1 has keywords and a reference answer, id 2 neither, id 3 keywords only
question_map ==
    [i \in {1, 2, 3} |-> IF i = 2 THEN "Which panda is red?" ELSE "Where do big cats live?"]
answer_map == [i \in {1} |-> "Lions live in Africa"]
keyword_map == [i \in {1, 3} |-> "lions, Africa"]

\* what the recognizer, the chatbot and the judge model do for one row
SttOutcomes ==
    { [kind |-> "text", text |-> "BIG  cat "],
      [kind |-> "text", text |-> "Big bat"],
      [kind |-> "raise"] }
ChatOutcomes ==
    { [kind |-> "answer", text |-> AnswerText],
      [kind |-> "answer", text |-> "I do not know."],
      [kind |-> "raise"] }
BatchJudgeOutcomes ==
    { [kind |-> "object",
       obj |-> [is_correct |-> TRUE, score |-> 80,
                reason |-> "Consistent with the standard answer"]],
      [kind |-> "object",
       obj |-> [is_correct |-> FALSE, score |-> 20,
                reason |-> "Contradicts the standard answer"]],
      [kind |-> "no_api_key"],
      [kind |-> "api_error"] }

\* the calls of one evaluate_row: the recognizer's outcome, then the chatbot's
\* when the recognizer answered, then the judge model's when the chatbot answered
NotCalled == [kind |-> "not called"]

SttRowOutcomes ==
    {[stt |-> o, chat |-> NotCalled, judge |-> NotCalled] : o \in SttOutcomes}

E2eRowOutcomes(use_llm) ==
    {[stt |-> [kind |-> "raise"], chat |-> NotCalled, judge |-> NotCalled]}
    \cup
    {[stt |-> o, chat |-> [kind |-> "raise"], judge |-> NotCalled] :
        o \in SttOutcomes \ {[kind |-> "raise"]}}
    \cup
    {[stt |-> o, chat |-> c, judge |-> j] :
        o \in SttOutcomes \ {[kind |-> "raise"]},
        c \in ChatOutcomes \ {[kind |-> "raise"]},
        j \in IF use_llm THEN BatchJudgeOutcomes ELSE {NotCalled}}

\* a function call that returned `value`, or that raised `exc`
Return(value) == [state |-> "returned", value |-> value]
Raise(exc) == [state |-> "raised", exc |-> exc]

\* a cer/wer cell that holds None
NoRate == Rate(0, 0)

\* stt_test.evaluate_row
stt_evaluate_row(row, o, intent_strict) ==
    IF o.stt.kind = "raise" THEN Raise(SttError(row.wav_path))
    ELSE LET stt_raw        == o.stt.text
             stt_normalized == normalize_text(stt_raw)
             ref_normalized == normalize_text(row.ref_transcript)
         IN  Return([id |-> row.id, wav_path |-> row.wav_path,
                     ref_transcript |-> row.ref_transcript,
                     stt_raw |-> stt_raw, stt_normalized |-> stt_normalized,
                     cer |-> cer(ref_normalized, stt_normalized),
                     wer |-> wer(ref_normalized, stt_normalized),
                     intent_hit |-> IF intent_strict
                                    THEN PyBool(stt_normalized = ref_normalized)
                                    ELSE None,
                     error |-> None])

\* the except branch of stt_test.main
stt_error_row(row, exc) ==
    [id |-> row.id, wav_path |-> row.wav_path, ref_transcript |-> row.ref_transcript,
     stt_raw |-> "", stt_normalized |-> "", cer |-> NoRate, wer |-> NoRate,
     intent_hit |-> None, error |-> Str(exc)]

\* the grading part of e2e_test.evaluate_row (lines 189-214): ai_correct,
\* missing_keywords and llm_reason, or the exception of the judge-model call
Grade(row, ai_answer, judge, use_llm) ==
    LET keywords      == Get(keyword_map, row.id, None)
        question_text == Get(question_map, row.id, None)
        reference_answer == Get(answer_map, row.id, None)
        by_keywords ==
            IF Truthy(keywords)
            THEN LET r == check_answer_with_keywords(ai_answer, [str |-> keywords])
                 IN  Return([ai_correct |-> PyBool(r[1]), missing_keywords |-> r[2],
                             llm_reason |-> None])
            ELSE Return([ai_correct |-> None, missing_keywords |-> <<>>,
                         llm_reason |-> None])
    IN  IF use_llm /\ Truthy(question_text)
        THEN IF Truthy(reference_answer)
             THEN LET llm_result == evaluate_answer_with_llm(judge) IN
                  IF llm_result.state = "raised" THEN llm_result
                  ELSE Return([ai_correct |-> PyBool(llm_result.value.is_correct),
                               missing_keywords |-> <<>>,
                               llm_reason |-> llm_result.value.reason])
             ELSE by_keywords
        ELSE by_keywords

\* e2e_test.evaluate_row
e2e_evaluate_row(row, o, intent_strict, use_llm) ==
    IF o.stt.kind = "raise" THEN Raise(SttError(row.wav_path))
    ELSE IF o.chat.kind = "raise" THEN Raise(ChatError)
    ELSE LET stt_raw        == o.stt.text
             stt_normalized == normalize_text(stt_raw)
             ref_normalized == normalize_text(row.ref_transcript)
             stt_intent_hit == IF intent_strict
                               THEN PyBool(stt_normalized = ref_normalized)
                               ELSE None
             ai_answer      == o.chat.text
             graded         == Grade(row, ai_answer, o.judge, use_llm)
         IN  IF graded.state = "raised" THEN graded
             ELSE LET g == graded.value
                      e2e_success ==
                          IF g.ai_correct = None THEN None
                          ELSE IF intent_strict /\ stt_intent_hit # "True"
                               THEN "False"
                               ELSE g.ai_correct
                  IN  Return([id |-> row.id, wav_path |-> row.wav_path,
                              ref_transcript |-> row.ref_transcript,
                              question_text |-> Get(question_map, row.id, None),
                              stt_raw |-> stt_raw, stt_normalized |-> stt_normalized,
                              ai_answer |-> ai_answer,
                              stt_intent_hit |-> stt_intent_hit,
                              ai_correct |-> g.ai_correct,
                              e2e_success |-> e2e_success,
                              conversation_id |-> None,
                              keywords_used |-> Get(keyword_map, row.id, None),
                              missing_keywords |->
                                  IF g.missing_keywords # <<>>
                                  THEN Join(g.missing_keywords, ", ") ELSE None,
                              llm_reason |-> g.llm_reason,
                              error |-> None])

\* an except branch that drops the message
e2e_error_row_NoMessage(row, exc) ==
    [id |-> row.id, wav_path |-> row.wav_path, ref_transcript |-> row.ref_transcript,
     question_text |-> None, stt_raw |-> "", stt_normalized |-> "", ai_answer |-> "",
     stt_intent_hit |-> None, ai_correct |-> None, e2e_success |-> None,
     conversation_id |-> None, keywords_used |-> None, missing_keywords |-> None,
     error |-> None]

\* the except branch of e2e_test.main
e2e_error_row(row, exc) ==
    [id |-> row.id, wav_path |-> row.wav_path, ref_transcript |-> row.ref_transcript,
     question_text |-> None, stt_raw |-> "", stt_normalized |-> "", ai_answer |-> "",
     stt_intent_hit |-> None, ai_correct |-> None, e2e_success |-> None,
     conversation_id |-> None, keywords_used |-> None, missing_keywords |-> None,
     error |-> Str(exc)]

\* a mask that keeps the rows with an error only
ErrorMask_ErrorsOnly(r) == r.error # None

\* error_mask of _persist_results (e2e_test.py:99-103)
ErrorMask(r) ==
    \/ r.error # None
    \/ r.ai_correct = "False"
    \/ r.e2e_success = "False"

\* _persist_results: the result file, and the error file when a row is masked
PersistResults(table) ==
    /\ results_csv' = [written |-> TRUE, rows |-> table]
    /\ LET error_df == SelectSeq(table, ErrorMask) IN
       IF error_df # <<>>
       THEN error_csv' = [written |-> TRUE, rows |-> error_df]
       ELSE UNCHANGED error_csv

\* error_mask of stt_test.main (lines 100-102)
SttErrorMask(r) == r.error # None \/ r.intent_hit = "False"

\* one iteration of the loop of stt_test.main (lines 74-90)
SttIterate ==
    /\ script = "stt_test"
    /\ batch_pc = "loop"
    /\ row_i <= Len(df)
    /\ \E o \in SttRowOutcomes :
         LET row == df[row_i]
             r   == stt_evaluate_row(row, o, opts.intent_strict)
         IN  /\ row_exc' = Append(row_exc, IF r.state = "raised" THEN r.exc ELSE NoExc)
             /\ rows' = Append(rows, IF r.state = "raised"
                                     THEN stt_error_row(row, r.exc) ELSE r.value)
    /\ row_i' = row_i + 1
    /\ UNCHANGED <<script, opts, df, results_csv, error_csv, batch_pc, streamVars, fnVars>>

\* after the loop of stt_test.main (lines 92-125): with an empty table the
\* lookup of the error column raises KeyError once the result file is written
SttSave ==
    /\ script = "stt_test"
    /\ batch_pc = "loop"
    /\ row_i > Len(df)
    /\ results_csv' = [written |-> TRUE, rows |-> rows]
    /\ IF rows = <<>>
       THEN batch_pc' = "raised" /\ UNCHANGED error_csv
       ELSE /\ batch_pc' = "done"
            /\ LET error_df == SelectSeq(rows, SttErrorMask) IN
               IF error_df # <<>>
               THEN error_csv' = [written |-> TRUE, rows |-> error_df]
               ELSE UNCHANGED error_csv
    /\ UNCHANGED <<script, opts, df, row_i, rows, row_exc, streamVars, fnVars>>

\* one iteration of the loop of e2e_test.main (lines 273-304)
E2eIterate ==
    /\ script = "e2e_test"
    /\ batch_pc = "loop"
    /\ row_i <= Len(df)
    /\ \E o \in E2eRowOutcomes(opts.use_llm_eval) :
         LET row == df[row_i]
             r   == e2e_evaluate_row(row, o, opts.intent_strict, opts.use_llm_eval)
         IN  /\ row_exc' = Append(row_exc, IF r.state = "raised" THEN r.exc ELSE NoExc)
             /\ rows' = Append(rows, IF r.state = "raised"
                                     THEN e2e_error_row(row, r.exc) ELSE r.value)
    /\ row_i' = row_i + 1
    /\ IF opts.autosave
       THEN PersistResults(rows')
       ELSE UNCHANGED <<results_csv, error_csv>>
    /\ UNCHANGED <<script, opts, df, batch_pc, streamVars, fnVars>>

\* after the loop of e2e_test.main (lines 306-321): with an empty table the
\* lookup of the stt_intent_hit column raises KeyError after the files are written
E2eFinish ==
    /\ script = "e2e_test"
    /\ batch_pc = "loop"
    /\ row_i > Len(df)
    /\ PersistResults(rows)
    /\ batch_pc' = IF rows = <<>> THEN "raised" ELSE "done"
    /\ UNCHANGED <<script, opts, df, row_i, rows, row_exc, streamVars, fnVars>>

\* main has parsed its command line and read the test set
BatchInit ==
    /\ StreamIdle
    /\ FnIdle
    /\ script \in {"stt_test", "e2e_test"}
    /\ opts \in [intent_strict : BOOLEAN, use_llm_eval : BOOLEAN, autosave : BOOLEAN,
                  keywords : {TRUE}]
    /\ script = "stt_test" => (~opts.use_llm_eval /\ ~opts.autosave)
    /\ df \in TestSets
    /\ row_i = 1
    /\ rows = <<>>
    /\ results_csv = [written |-> FALSE]
    /\ error_csv = [written |-> FALSE]
    /\ batch_pc = "loop"
    /\ row_exc = <<>>

BatchNext ==
    \/ SttIterate
    \/ SttSave
    \/ E2eIterate
    \/ E2eFinish

BatchSpec == BatchInit /\ [][BatchNext]_vars

(***************************************************************************)
(* One streaming session next to configuration updates and uploads: no     *)
(* collaborator fails and the clock stands still                           *)
(***************************************************************************)
\* the configuration records found at process start: none, an unreadable
\* one, one without phrase hints
StartFiles ==
    { NoFile, [state |-> "corrupt"],
      [state |-> "json", data |-> [stt_provider |-> "openai"]] }

ConfigInit ==
    /\ wsPc = "receive"
    /\ connected = TRUE
    /\ items = <<>>
    /\ idx = 0
    /\ total = 0
    /\ processed = 0
    /\ total_score = 0
    /\ total_latency = 0
    /\ sent = <<>>
    /\ handler_raised = FALSE
    /\ language_code = None
    /\ \E file \in StartFiles : Loaded(file)
    /\ uploaded = NoUpload
    /\ pc = "idle"
    /\ args = [item_id |-> 0, question |-> "", reference_answer |-> "",
               phrase_hints |-> <<>>, stt_provider |-> "", language_code |-> ""]
    /\ result = PipelineResult(0, "", "")
    /\ start_total = 0
    /\ t0 = 0
    /\ now = MaxClock
    /\ cache = {}
    /\ gcs_bucket = None
    /\ faults = MaxFaults
    /\ calls = <<>>
    /\ raised = NoExc
    /\ failed_stage = 0
    /\ measured = [k \in 1..4 |-> 0]
    /\ eval_res = [state |-> "none"]
    /\ judge_outcome = [kind |-> "none"]
    /\ FnIdle
    /\ BatchIdle

ConfigNext ==
    \/ update_config
    \/ upload_csv
    \/ ReceiveUploaded
    \/ ReadLanguage
    \/ PassArguments
    \/ Synthesize
    \/ Upload
    \/ Recognize
    \/ Query
    \/ Evaluate
    \/ Report
    \/ Sleep
    \/ Complete

ConfigSpec == ConfigInit /\ [][ConfigNext]_vars

(***************************************************************************)
(* Properties                                                              *)
(***************************************************************************)
Returned == wsPc = "processing" /\ pc = "returned"

StageOf(who) ==
    CASE who = "synthesizer" -> 1
      [] who = "storage"     -> 1
      [] who = "recognizer"  -> 2
      [] who = "chatbot"     -> 3
      [] who = "judge"       -> 4

StageLatency(res, k) ==
    CASE k = 1 -> res.tts_latency
      [] k = 2 -> res.stt_latency
      [] k = 3 -> res.chatbase_latency
      [] k = 4 -> res.eval_latency

\* C1: process_item never raises, whatever a stage or a collaborator raises:
\* it returns a PipelineResult whose status is success or error, never pending.
C1_NeverRaises ==
    /\ pc # "raised"
    /\ Returned => result.status \in {"success", "error"}

\* a collaborator has failed and the call has returned all the same
C1_Witness == Returned /\ raised # NoExc /\ result.status = "error"

\* C2: when stage k fails, no collaborator of a later stage is invoked, the
\* result has status error and the message of the exception, the stages
\* completed before k keep their measured latency and the later ones show 0.
C2_ShortCircuit ==
    (Returned /\ failed_stage > 0) =>
        /\ \A i \in 1..Len(calls) : StageOf(calls[i].who) <= failed_stage
        /\ result.status = "error"
        /\ result.error_msg = Str(raised)
        /\ \A k \in 1..4 :
             /\ k < failed_stage => StageLatency(result, k) = measured[k]
             /\ k > failed_stage => StageLatency(result, k) = 0

\* the recognizer failed after a synthesis that took measurable time
C2_Witness ==
    /\ Returned /\ failed_stage = 2 /\ result.status = "error"
    /\ result.tts_latency > 0 /\ result.total_latency > 0

\* C3: a result with status error has every field of the stages after the
\* failing one at its default; a result with status success whose scoring was
\* skipped has a non-empty reason.
C3_DefaultsAfterFailure ==
    Returned =>
        /\ result.status = "error" =>
             /\ failed_stage \in 1..4
             /\ failed_stage < 2 => result.stt_text = ""
             /\ failed_stage < 3 => result.ai_answer = ""
             /\ failed_stage < 4 => result.score = 0 /\ result.reason = ""
        /\ (result.status = "success" /\ ~Truthy(result.reference_answer)) =>
             result.reason # ""

\* the chatbot failed: the transcript is there, answer, score and reason are not
C3_Witness ==
    /\ Returned /\ result.status = "error" /\ failed_stage = 3
    /\ result.stt_text # "" /\ result.ai_answer = "" /\ result.reason = ""

JudgeCallFailed == judge_outcome.kind \in {"api_error", "empty", "not_json"}

\* C4: when the judge-model call fails in the Evaluate stage the failure does
\* not become an item error: the item carries the fail-closed judgment (score
\* 0, a reason embedding the failure) and its status is not error.
C4_JudgeFailureIsNotItemError ==
    (Returned /\ JudgeCallFailed) =>
        /\ result.status # "error"
        /\ result.score = 0
        /\ Contains(result.reason, Str(DelegateException(judge_outcome)))

\* the text that describes the failure of the delegate
FailureText(o) ==
    IF o.kind = "no_api_key"
    THEN "Environment variable 'OPENAI_API_KEY' is required but was not provided."
    ELSE IF o.kind = "object" THEN ""
    ELSE Str(DelegateException(o))

\* C5: evaluate_answer_with_llm never raises: on any failure of the delegate
\* it returns is_correct = false, a score field equal to 0 and a non-empty
\* reason that contains the failure text.
C5_EvaluatorFailsClosed ==
    (eval_res.state # "none" /\ judge_outcome \in JudgeFailures) =>
        /\ eval_res.state = "returned"
        /\ eval_res.value.is_correct = FALSE
        /\ "score" \in DOMAIN eval_res.value
        /\ eval_res.value.score = 0
        /\ eval_res.value.reason # ""
        /\ Contains(eval_res.value.reason, FailureText(judge_outcome))

SkippedScoring ==
    Returned /\ failed_stage = 0 /\ ~Truthy(args.reference_answer)

NoJudgeCall == \A i \in 1..Len(calls) : calls[i].who # "judge"

\* C6 as stated: with an empty reference answer and stages 1-3 succeeding the
\* judge model is not invoked and the result has status success, score 0 and
\* the reason "no reference answer provided".
C6_AsStated ==
    SkippedScoring =>
        /\ NoJudgeCall
        /\ result.status = "success"
        /\ result.score = 0
        /\ result.reason = "no reference answer provided"

\* C6 as amended: the same, the reason being "No reference answer provided".
C6_SkipScoring ==
    SkippedScoring =>
        /\ NoJudgeCall
        /\ result.status = "success"
        /\ result.score = 0
        /\ result.reason = "No reference answer provided"

\* an item without reference answer went through the first three stages
C6_Witness ==
    /\ SkippedScoring /\ Len(calls) >= 3
    /\ result.stt_text # "" /\ result.ai_answer # ""

IsUpdate(m) == m.type = "update"

IsSuccessUpdate(m) == IsUpdate(m) /\ m.result.status = "success"

RECURSIVE SuccessCount(_)
SuccessCount(k) ==
    IF k = 0 THEN 0
    ELSE SuccessCount(k - 1) + (IF IsSuccessUpdate(sent[k]) THEN 1 ELSE 0)

RECURSIVE SuccessScore(_)
SuccessScore(k) ==
    IF k = 0 THEN 0
    ELSE SuccessScore(k - 1) + (IF IsSuccessUpdate(sent[k]) THEN sent[k].result.score ELSE 0)

RECURSIVE SuccessLatency(_)
SuccessLatency(k) ==
    IF k = 0 THEN 0
    ELSE SuccessLatency(k - 1) + (IF IsSuccessUpdate(sent[k]) THEN sent[k].result.latency ELSE 0)

\* the fraction f equals sum / n
IsAverage(f, sum, n) == f.num * n = sum * f.den

\* C7: in every update, avg_score and avg_latency are the averages over the
\* items that reached status success so far; failed items count neither in
\* the numerator nor in the denominator.
C7_AveragesOverSuccesses ==
    \A k \in 1..Len(sent) :
        (IsUpdate(sent[k]) /\ SuccessCount(k) > 0) =>
            /\ IsAverage(sent[k].stats.avg_score, SuccessScore(k), SuccessCount(k))
            /\ IsAverage(sent[k].stats.avg_latency, SuccessLatency(k), SuccessCount(k))

WellFormed == \A i \in 1..Len(items) : "id" \in DOMAIN items[i]

\* the first n messages are the updates of the first n items, in input order
UpdatesInOrder(n) ==
    \A i \in 1..n :
        /\ IsUpdate(sent[i])
        /\ sent[i].result.id = items[i].id
        /\ sent[i].result.question = items[i].question
        /\ sent[i].stats.processed = i

SessionOver == wsPc = "done" /\ connected /\ items # <<>> /\ WellFormed

\* C8: a session over N items, N > 0, with no induced failure and no
\* disconnect sends exactly N updates, one per item in input order, then
\* exactly one complete message, and nothing else.
C8_StreamingCompletion ==
    (SessionOver /\ faults = 0) =>
        /\ Len(sent) = Len(items) + 1
        /\ UpdatesInOrder(Len(items))
        /\ \A i \in 1..Len(items) : sent[i].result.status = "success"
        /\ sent[Len(sent)] = CompleteMessage

\* a session over the longest list has ended without failure
C8_Witness ==
    /\ SessionOver /\ faults = 0 /\ Len(items) = MaxItems
    /\ Len(sent) = MaxItems + 1

\* C9: a failing item does not stop the stream: its update carries status
\* error and the error text, the later items are processed and reported, and
\* complete is sent after the last item.
C9_FailureIsolation ==
    /\ (Returned /\ failed_stage > 0) =>
          /\ result.status = "error"
          /\ result.error_msg = Str(raised)
    /\ SessionOver =>
          /\ Len(sent) = Len(items) + 1
          /\ UpdatesInOrder(Len(items))
          /\ sent[Len(sent)] = CompleteMessage
          /\ Len(current_results) = Len(items)
          /\ \A i \in 1..Len(items) :
               /\ sent[i].result.status = current_results[i].status
               /\ sent[i].result.error = current_results[i].error_msg
               /\ sent[i].result.status = "error" => sent[i].result.error # None

\* the first item failed, a later one succeeded, and complete was sent
C9_Witness ==
    /\ SessionOver /\ Len(items) >= 2 /\ Len(sent) = Len(items) + 1
    /\ sent[1].result.status = "error" /\ sent[1].result.error # None
    /\ sent[2].result.status = "success"
    /\ sent[Len(sent)] = CompleteMessage

\* C10: once the consumer has disconnected, no item's Synthesize stage begins.
C10_NoStartAfterDisconnect ==
    [][(~connected) => ~(pc = "idle" /\ pc' = "tts")]_vars

\* the loop has reached an entry whose fields cannot be read and the session
\* has ended there
FaultReached ==
    /\ wsPc = "done"
    /\ idx \in 1..Len(items)
    /\ "id" \notin DOMAIN items[idx]

ErrorCount == Cardinality({i \in 1..Len(sent) : sent[i].type = "error"})

OneErrorNoComplete(text) ==
    /\ ~handler_raised
    /\ Len(sent) = idx
    /\ sent[Len(sent)] = ErrorMessage(text)
    /\ ErrorCount = 1
    /\ \A i \in 1..Len(sent) : sent[i] # CompleteMessage

\* C11: any unexpected fault raised inside the session loop results in
\* exactly one error message carrying the fault's description, no complete
\* message, and the handler ending without raising.
C11_FaultReported == FaultReached => OneErrorNoComplete("'id'")

StorageCalls == {i \in 1..Len(calls) : calls[i].who = "storage"}

Uploaded == \E i \in StorageCalls : calls[i].ok

UploadFailed == \E i \in StorageCalls : ~calls[i].ok

\* the call in flight has left its Synthesize stage without a synthesis failure
PastSynthesize ==
    /\ wsPc = "processing"
    /\ pc \in {"stt", "chat", "eval", "returned"}
    /\ failed_stage # 1

\* C14: after the Synthesize stage audio_path is the remote locator exactly
\* when remote storage is configured and the upload succeeded, and the local
\* artifact path otherwise; a failed upload does not set the status to error
\* and does not keep the Recognize stage from running.
C14_AudioPath ==
    PastSynthesize =>
        /\ Cardinality(StorageCalls) = IF Truthy(gcs_bucket) THEN 1 ELSE 0
        /\ result.audio_path =
              IF Truthy(gcs_bucket) /\ Uploaded
              THEN "https://storage.googleapis.com/" \o gcs_bucket \o "/audio/"
                       \o wav_filename(result.id, result.question)
              ELSE OutputDir \o "/" \o wav_filename(result.id, result.question)
        /\ UploadFailed =>
              /\ pc = "stt" => result.status = "pending"
              /\ pc # "stt" => \E i \in 1..Len(calls) : calls[i].who = "recognizer"
              /\ result.status = "error" =>
                    (failed_stage \in 2..4 /\ result.error_msg = Str(raised))

\* the upload failed and the item went on to status success with the local path
C14_Witness ==
    /\ Returned /\ UploadFailed /\ result.status = "success"
    /\ result.audio_path = wav_path(result.id, result.question)
    /\ result.stt_text # ""

\* this step invokes the collaborator `who`
Invoked(who) ==
    /\ Len(calls') = Len(calls) + 1
    /\ calls'[Len(calls')].who = who

\* the (id, question) pairs whose keys are compared
KeyInputs == {1, 2} \X {"Where do lions live?", "What do pandas eat?"}

\* different (id, question) pairs have different keys
KeysDistinct ==
    \A k1, k2 \in KeyInputs :
        k1 # k2 => wav_path(k1[1], k1[2]) # wav_path(k2[1], k2[2])

IsRate(v, n, d) == v.den > 0 /\ v.num * d = n * v.den

\* the least number of insertions, deletions and substitutions that turn the
\* sequence a into the sequence b
RECURSIVE ClassicDistance(_, _)
ClassicDistance(a, b) ==
    IF a = <<>> THEN Len(b)
    ELSE IF b = <<>> THEN Len(a)
    ELSE Min3(ClassicDistance(Tail(a), b) + 1,
              ClassicDistance(a, Tail(b)) + 1,
              ClassicDistance(Tail(a), Tail(b)) + (IF Head(a) = Head(b) THEN 0 ELSE 1))

KeywordCall == fn_out.fn = "check_answer_with_keywords"

\* the non-blank entries of the specification, in its order
Effective(parts) == SelectSeq(parts, LAMBDA part : part.trimmed # "")

Found(answer, part) == Contains(answer.folded, part.folded)

\* C16: check_answer_with_keywords returns (true, []) exactly when the
\* specification has a non-blank keyword and every trimmed, case-folded
\* keyword is a substring of the case-folded answer; otherwise false with the
\* missing keywords in specification order; no non-blank keyword: (false, []).
C16_KeywordMatch ==
    KeywordCall =>
        LET eff  == Effective(fn_in.parts)
            miss == SelectSeq(eff, LAMBDA part : ~Found(fn_in.answer, part))
        IN  /\ (fn_out.value = <<TRUE, <<>>>>) <=>
                  (eff # <<>> /\ \A i \in 1..Len(eff) : Found(fn_in.answer, eff[i]))
            /\ (fn_out.value # <<TRUE, <<>>>>) =>
                  fn_out.value = <<FALSE, [i \in 1..Len(miss) |-> miss[i].trimmed]>>
            /\ (eff = <<>>) => fn_out.value = <<FALSE, <<>>>>

\* of two keywords one is found despite its case and one is missing
C16_Witness ==
    /\ KeywordCall
    /\ "str" \in DOMAIN fn_in.keywords
    /\ fn_in.keywords.str = " Carnivore ,lion"
    /\ fn_in.answer.raw = "The lion is here"
    /\ fn_out.value = <<FALSE, <<"Carnivore">>>>

CerCall == fn_out.fn = "cer"

\* C17: cer(ref, hyp) is 0.0 if and only if ref = hyp; cer of two empty
\* strings is 0.0; cer of an empty reference and a non-empty hypothesis is
\* 1.0; for a non-empty reference cer is the character edit distance divided
\* by the length of the reference.
C17_Cer ==
    CerCall =>
        LET ref == fn_in.ref
            hyp == fn_in.hyp
            v   == fn_out.value
        IN  /\ IsRate(v, 0, 1) <=> (ref = hyp)
            /\ (ref = "" /\ hyp = "") => IsRate(v, 0, 1)
            /\ (ref = "" /\ hyp # "") => IsRate(v, 1, 1)
            /\ (ref # "") =>
                  IsRate(v, ClassicDistance(Chars(ref), Chars(hyp)), Len(ref))

\* one substitution in a reference of two characters
C17_Witness ==
    /\ CerCall /\ fn_in.ref = "ab" /\ fn_in.hyp = "aa"
    /\ IsRate(fn_out.value, 1, 2)

WerCall == fn_out.fn = "wer"

\* C18: wer follows the policy of cer over whitespace-split words, and no
\* rate is clamped: with a non-empty reference and a hypothesis of more than
\* twice as many tokens the rate is greater than 1.0.
C18_WerUnclamped ==
    /\ WerCall =>
          LET rw == fn_in.ref_words
              hw == fn_in.hyp_words
              v  == fn_out.value
          IN  /\ (rw = <<>> /\ hw = <<>>) => IsRate(v, 0, 1)
              /\ (rw = <<>> /\ hw # <<>>) => IsRate(v, 1, 1)
              /\ (rw # <<>>) => IsRate(v, ClassicDistance(rw, hw), Len(rw))
              /\ (rw # <<>> /\ Len(hw) > 2 * Len(rw)) => v.num > v.den
    /\ (CerCall /\ fn_in.ref # "" /\ Len(fn_in.hyp) > 2 * Len(fn_in.ref)) =>
          fn_out.value.num > fn_out.value.den

\* one reference word against three hypothesis words amid irregular whitespace
C18_Witness ==
    /\ WerCall /\ fn_in.ref = "a" /\ fn_in.hyp = "  a\t bb\t a\n"
    /\ IsRate(fn_out.value, 2, 1)

DistanceCall == fn_out.fn = "_levenshtein_distance"

\* the token sequences the distance was computed over
RefTokens == IF fn_in.kind = "chars" THEN Chars(fn_in.ref) ELSE fn_in.ref_words
HypTokens == IF fn_in.kind = "chars" THEN Chars(fn_in.hyp) ELSE fn_in.hyp_words

\* C19: _levenshtein_distance is symmetric, and it is the classic unit-cost
\* Levenshtein distance.
C19_DistanceSymmetric ==
    DistanceCall =>
        /\ fn_out.value = _levenshtein_distance(HypTokens, RefTokens)
        /\ fn_out.value = ClassicDistance(RefTokens, HypTokens)
        /\ fn_out.value = ClassicDistance(HypTokens, RefTokens)

\* sequences of different lengths, two edits apart
C19_Witness ==
    /\ DistanceCall /\ fn_in.kind = "chars"
    /\ fn_in.ref = "ab" /\ fn_in.hyp = "ba " /\ fn_out.value = 2

NormalizeCall == fn_out.fn = "normalize_text"

Whitespace == {" ", "\t", "\n", "\r"}

Capitals == {SubSeq(UpperChars, i, i) : i \in 1..Len(UpperChars)}

\* C20: normalize_text is total and idempotent: null and empty give the
\* empty string; the output is lowercase, has no leading or trailing
\* whitespace, no run of two or more whitespace characters and no whitespace
\* character other than a space; normalizing the output changes nothing.
C20_NormalizeIdempotent ==
    NormalizeCall =>
        LET v == fn_out.value
            ch(i) == SubSeq(v, i, i)
        IN  /\ (fn_in.text = None \/ fn_in.text = "") => v = ""
            /\ \A i \in 1..Len(v) :
                  /\ ch(i) \notin Capitals
                  /\ ch(i) \in Whitespace => ch(i) = " "
                  /\ (i < Len(v) /\ ch(i) \in Whitespace) => ch(i + 1) \notin Whitespace
            /\ v # "" => (ch(1) \notin Whitespace /\ ch(Len(v)) \notin Whitespace)
            /\ normalize_text(v) = v

\* a capital, and a run of two different whitespace characters between words
C20_Witness ==
    /\ NormalizeCall /\ fn_in.text = "A \nb" /\ fn_out.value = "a b"

BatchOver == batch_pc \in {"done", "raised"}

\* C12: after a batch run the result table has one row per input row, in
\* input order; a row whose evaluation raised carries the exception message
\* in its error field, and the rows after it are still evaluated.
C12_BatchRows ==
    /\ script # "none" => Len(rows) = row_i - 1 /\ Len(row_exc) = Len(rows)
    /\ BatchOver =>
          /\ Len(rows) = Len(df)
          /\ results_csv = [written |-> TRUE, rows |-> rows]
          /\ \A i \in 1..Len(df) :
                /\ rows[i].id = df[i].id
                /\ rows[i].wav_path = df[i].wav_path
                /\ rows[i].ref_transcript = df[i].ref_transcript
                /\ rows[i].error = IF row_exc[i] = NoExc THEN None ELSE row_exc[i].msg

\* the chatbot failed on the first row and the second row was evaluated
C12_Witness ==
    /\ script = "e2e_test" /\ batch_pc = "done" /\ Len(df) = 2
    /\ df[1].id # df[2].id
    /\ rows[1].error = "Chatbase response did not include an answer text field"
    /\ rows[2].error = None /\ rows[2].ai_answer # ""

\* the rows of the result file that belong in the error-case file
ErrorCases ==
    SelectSeq(results_csv.rows,
              LAMBDA r : r.error # None \/ r.ai_correct = "False"
                                        \/ r.e2e_success = "False")

\* C13: the error-case file written by _persist_results holds exactly the
\* rows of the result table whose error is set, or whose ai_correct is
\* False, or whose e2e_success is False; a row with both flags unset and no
\* error is never in it.
C13_ErrorSubset ==
    (script = "e2e_test" /\ results_csv.written) =>
        /\ error_csv.written => error_csv.rows = ErrorCases
        /\ ~error_csv.written => ErrorCases = <<>>
        /\ error_csv.written =>
              \A i \in 1..Len(error_csv.rows) :
                  LET r == error_csv.rows[i] IN
                  ~(r.error = None /\ r.ai_correct = None /\ r.e2e_success = None)

\* a wrong answer is in the error-case file, an ungraded row is not
C13_Witness ==
    /\ script = "e2e_test" /\ batch_pc = "done" /\ Len(rows) = 2
    /\ rows[1].error = None /\ rows[1].ai_correct = None /\ rows[1].e2e_success = None
    /\ rows[2].error = None /\ rows[2].ai_correct = "False"
    /\ error_csv.written /\ error_csv.rows = <<rows[2]>>

\* C21: the score of every PipelineResult returned by process_item is an
\* integer between 0 and 100 inclusive, whatever the judge model returns.
C21_ScoreInRange == Returned => result.score \in 0..100

\* the collaborators of the four stages
StageCollaborators == {"synthesizer", "recognizer", "chatbot", "judge"}

\* the stage collaborators invoked by the call in flight, in order
Invocations == SelectSeq(calls, LAMBDA c : c.who \in StageCollaborators)

\* the call in flight has invoked collaborator `who`
Called(who) == \E i \in 1..Len(calls) : calls[i].who = who

\* C22: within one process_item call each collaborator is invoked at most
\* once and only in the order Synthesize, Recognize, Query, Evaluate: a
\* failed call is never retried, and a stage starts only when the stage
\* before it has completed successfully.
C22_OnceInOrder ==
    /\ LET invoked == Invocations IN
       \A i, j \in 1..Len(invoked) :
          i < j => StageOf(invoked[i].who) < StageOf(invoked[j].who)
    /\ \A i \in 1..Len(calls) :
          /\ calls[i].who = "recognizer" =>
                /\ wav_path(args.item_id, args.question) \in cache
                /\ Truthy(result.audio_path)
          /\ calls[i].who = "chatbot" =>
                /\ Called("recognizer")
                /\ result.stt_text # "" /\ failed_stage # 2
          /\ calls[i].who = "judge" =>
                /\ Called("chatbot")
                /\ result.ai_answer # "" /\ failed_stage # 3
    /\ raised # NoExc =>
          /\ pc \in {"returned", "raised"}
          /\ \A i \in 1..Len(calls) : StageOf(calls[i].who) <= failed_stage
    /\ failed_stage \in 1..3 =>
          StageOf(calls[Len(calls)].who) = failed_stage

\* the chatbot failed: it was invoked once, after the synthesizer and the
\* recognizer, and the call has returned without a judge call
C22_Witness ==
    /\ Returned /\ failed_stage = 3 /\ raised = ChatError
    /\ Len(Invocations) = 3
    /\ Invocations[1].who = "synthesizer"
    /\ Invocations[2].who = "recognizer"
    /\ Invocations[3].who = "chatbot"

\* the update messages delivered so far, in order
Updates == SelectSeq(sent, IsUpdate)

\* C26: in a session over N items the k-th update carries processed = k and
\* total = N: processed grows by one per update and never exceeds total, and
\* both averages are divided by processed, which is never zero.
C26_UpdateStatistics ==
    LET updates == Updates IN
    \A k \in 1..Len(updates) :
        LET stats == updates[k].stats IN
        /\ stats.processed = k
        /\ stats.total = Len(items)
        /\ stats.processed <= stats.total
        /\ stats.avg_score.den = stats.processed
        /\ stats.avg_latency.den = stats.processed
        /\ stats.processed > 0

\* every item of the longest list has been reported, the first one as failed
C26_Witness ==
    /\ Len(items) = MaxItems
    /\ Len(Updates) = MaxItems
    /\ Updates[1].result.status = "error"
    /\ Updates[MaxItems].stats.processed = MaxItems

\* a message that ends the session
IsTerminal(m) == m.type \in {"complete", "error"}

Terminals == {i \in 1..Len(sent) : IsTerminal(sent[i])}

\* C27: in one streaming session at most one terminal message (complete or
\* error) is delivered, it is the last message of the session and no update
\* follows it; when the consumer has disconnected no terminal message is
\* delivered at all.
C27_OneTerminalLast ==
    LET terminals == Terminals IN
    /\ Cardinality(terminals) <= 1
    /\ \A i \in terminals :
          /\ i = Len(sent)
          /\ wsPc = "done"
    /\ ~connected => terminals = {}

\* the session reported an item and then ended with an error message
C27_Witness ==
    /\ wsPc = "done"
    /\ Len(sent) = 2
    /\ IsUpdate(sent[1])
    /\ sent[2].type = "error"

\* the session has ended on an initial message with an empty or missing list
EmptyListSession == wsPc = "done" /\ connected /\ items = <<>>

\* C28: a session whose initial message carries an empty or missing item
\* list sends exactly one error message, "No items to process", and ends
\* without invoking the pipeline, without an update and without complete.
C28_NoItems ==
    EmptyListSession =>
        /\ sent = <<ErrorMessage("No items to process")>>
        /\ pc = "idle" /\ calls = <<>> /\ cache = {}
        /\ result = PipelineResult(0, "", "")
        /\ current_results = <<>>
        /\ processed = 0

\* the session has ended after one message to a consumer that sent no items
C28_Witness == EmptyListSession /\ Len(sent) = 1 /\ sent[1].type = "error"

\* a step that changes the run configuration
ConfigChanges ==
    \/ current_phrase_hints' # current_phrase_hints
    \/ current_stt_provider' # current_stt_provider

\* C23: the run configuration (phrase hints and recognizer provider) is
\* mutated only by the configuration update handler: every step that changes
\* current_phrase_hints or current_stt_provider is a step of update_config.
C23_SoleWriter == [][ConfigChanges => update_config]_vars

\* what a restart of the process would load
Reloaded ==
    [phrase_hints |-> Get(load_config(config_file), "phrase_hints", TAIWAN_ANIMALS),
     stt_provider |-> Get(load_config(config_file), "stt_provider", "google")]

\* C24: after any sequence of configuration updates and uploads the
\* persisted configuration record equals the run configuration in memory: a
\* restart reloads the phrase hints and the provider in effect before it.
C24_PersistedEqualsMemory ==
    /\ Reloaded.phrase_hints = current_phrase_hints
    /\ Reloaded.stt_provider = current_stt_provider

\* C25: for every item processed in streaming mode the language code and the
\* provider passed to process_item agree, the language being en-US exactly
\* when the provider is openai, under every interleaving with uploads and
\* configuration updates.
C25_LanguageMatchesProvider ==
    wsPc = "processing" =>
        (args.language_code = "en-US" <=> args.stt_provider = "openai")

\* the result belongs to the item
ResultOf(res, item) ==
    /\ res.id = item.id
    /\ res.question = item.question
    /\ res.reference_answer = item.reference_answer

\* C29: current_results holds only results of items of the run started by
\* the most recent upload, each once and in processing order.
C29_LatestRunOnly ==
    uploaded # NoUpload =>
        /\ Len(current_results) <= Len(uploaded.items)
        /\ \A i \in 1..Len(current_results) :
              ResultOf(current_results[i], uploaded.items[i])

\* process_item is called
ItemStarts == wsPc # "processing" /\ wsPc' = "processing"

\* C30: a configuration change made while a session runs applies to every
\* item whose processing starts after it and to no item that started before
\* it: an item is called with the provider and the hints in effect when its
\* processing starts, they stay fixed while its stages run, whatever happens
\* to the configuration, and the recognizer is invoked with them.
C30_ConfigFixedAtStart ==
    [][/\ ItemStarts =>
            /\ args'.stt_provider = current_stt_provider
            /\ args'.phrase_hints = current_phrase_hints
       /\ (wsPc = "processing" /\ ~ItemStarts /\ pc # "idle") => args' = args
       /\ ConfigChanges => args' = args
       /\ Invoked("recognizer") =>
            /\ calls'[Len(calls')].provider = args.stt_provider
            /\ calls'[Len(calls')].hints = args.phrase_hints]_vars

\* the second item runs with the hints of an update made after the first,
\* and an upload has changed the provider since the second item started
C30_Witness ==
    /\ wsPc = "processing" /\ idx = 2 /\ pc = "chat"
    /\ args.phrase_hints = <<"panda">>
    /\ Len(sent) = 1 /\ IsUpdate(sent[1])
    /\ sent[1].result.id # args.item_id
    /\ args.stt_provider # current_stt_provider

====
